---- MODULE Spec2Model ----
(***************************************************************************)
(* Model of the token-ownership snapshot tool:                             *)
(*   src/ratelimit.js  RateLimiter (interval-spaced task scheduler)        *)
(*   src/db.js         EventCacheDB (deduplicating event cache)            *)
(*   src/app.js        findBlockByTimestamp, getTransactionThroughBlock,   *)
(*                     getHolderMapByBlock, getWalletBalance               *)
(* Each component has its own specification over the shared variables; the *)
(* variables of the other components stay at their initial values.         *)
(***************************************************************************)
EXTENDS Integers, Sequences, FiniteSets, TLC

(***************************************************************************)
(* Bounds of the model.                                                    *)
(***************************************************************************)
\* number of add() calls in the RateLimiter specification
MaxTasks == 3
\* milliseconds per step of the clock
LimiterQuantum == 1
\* the same while balances are aggregated
BalanceQuantum == 20
\* provider.getBalance calls that throw, per aggregation
MaxRpcFailures == 2
\* queryFilter calls that fail, per ingestion run
MaxFailures == 2
\* queryFilter calls that succeed, per ingestion run
MaxWindows == 6
\* the same two budgets where a run is restarted and repeated
ResumeFailures == 1
ResumeWindows == 4
\* the same two budgets where the remote keeps rejecting the window
StormFailures == 10
StormWindows == 1
\* ingestion runs (process starts) against one store
MaxRuns == 2
\* highest block number of the chain searched by findBlockByTimestamp
MaxHeight == 4
\* rows of the store read by getHolderMapByBlock
MaxRows == 3

(***************************************************************************)
(* Program constants.                                                      *)
(***************************************************************************)
\* app.js:13  new RateLimiter(25)
requestsPerSecond == 25
\* ratelimit.js:4  this.interval = 1000 / requestsPerSecond
interval == 1000 \div requestsPerSecond

\* app.js:18
startBlock == 12286690
\* app.js:70-74
InitialChunkSize == 50000
MIN_CHUNK_SIZE == 100
MAX_CHUNK_SIZE == 150000
MAX_LOGS_PER_QUERY == 9500
MIN_LOGS_TO_INCREASE_CHUNK == 1000
\* app.js:42
tolerance == 300
\* app.js:177
RETRY_DELAY_MS == 2000

\* ratelimit.js:7  this.timeoutId = null; a handle returned by setTimeout is truthy
NULL == "null"
HANDLE == "Timeout"

VARIABLES
    \* ---- RateLimiter (ratelimit.js) ----
    queue,                  \* this.queue: task ids in arrival order
    timeSinceLastDispatch,  \* Date.now() - this.lastDispatchTime, saturating at interval
    timeoutId,              \* this.timeoutId
    timers,                 \* one-shot timers armed by dispatch(): remaining delay of each
    running,                \* tasks whose fn() was called and has not settled
    future,                 \* state of the promise add() returned, per task
    nAdded,                 \* number of add() calls so far
    \* ---- observers of the RateLimiter ----
    started,                \* task ids in the order their fn() was called
    sinceStart,             \* wall time since the latest fn() call, saturating; -1 before the first
    startGaps,              \* wall time between consecutive fn() calls, saturating at interval
    sinceCall,              \* wall time since provider.getBalance was last called,
                            \* saturating; -1 before the first call
    \* ---- the clock ----
    quantum,                \* milliseconds by which the clock is seen to advance
    retryTimers             \* setTimeout(resolve, RETRY_DELAY_MS) of the balance retries:
                            \* the remaining delay, per waiting task

VARIABLES
    \* ---- EventCacheDB (db.js) ----
    store,                  \* rows of table transfers, in insertion (id) order
    \* ---- getTransactionThroughBlock (app.js) ----
    ipc,                    \* "idle": not running, "loop": at the while head, "done": returned
    maxBlock,               \* targetBlockNumber
    currentBlock,
    currentChunkSize,
    highestCachedBlock,     \* value read once before the loop
    nLogs,                  \* events.length of the latest successful query, -1 before it
    \* ---- observers of the ingestion ----
    nOk,                    \* queryFilter calls of this run that returned
    nFail,                  \* queryFilter calls of this run that threw
    lastQuery,              \* the latest queryFilter call of this run: [from, to, ok]
    okFrom,                 \* first block of the run's first successful window, -1 before it
    okTo,                   \* last block of the run's latest successful window, -1 before it
    gapFree,                \* every successful window began right after the one before it
    scenario,               \* the environment's budget for this behaviour
    runs,                   \* calls of getTransactionThroughBlock so far
    job,                    \* the target being worked on, the store when it was first asked
                            \* for, and the process restarts since
    rerunOf,                \* the store a returned run left, while the same target runs again
    lastError,              \* what the catch block last caught in this run: "none",
                            \* "overflow", "other" (a failed fetch) or "store"
    sweptTo                 \* the highest target a run before this one swept to and returned

VARIABLES
    \* ---- findBlockByTimestamp (app.js) ----
    rpc,                    \* "idle", "search": at the while head, "done": returned
    chain,                  \* the remote chain: chain[h + 1] is the timestamp of block h
    missing,                \* heights for which provider.getBlock returns null
    targetTimestamp,
    searchStart,            \* the local startBlock of the search
    endBlock,
    foundBlock,             \* NoBlock, or the number of the block returned
    \* ---- getHolderMapByBlock (app.js) ----
    hpc,                    \* "idle", "done": returned
    fromBlock,              \* the arguments startBlock, targetBlockNumber
    toBlock,
    holderMap               \* the Map returned: a function from token ids to holders

VARIABLES
    \* ---- getWalletBalance (app.js) ----
    bpc,                    \* "idle", "awaiting": at Promise.all, "returned"
    walletAddress,          \* the argument: the unique holders
    balanceOf,              \* what provider.getBalance answers at the target block, per address
    attempts,               \* fetchBalanceWithRetry's attempts, per task
    results,                \* the value each task's promise resolved with
    completed,
    total,                  \* the value returned: formatEther(sum)
    rpcFailures,            \* provider.getBalance calls that threw so far
    answered,               \* the tasks in the order their promises resolved
    crashed                 \* the tasks whose fetchBalanceWithRetry rejected

rlVars == <<queue, timeSinceLastDispatch, timeoutId, timers, running, future, nAdded,
            started, sinceStart, startGaps, quantum, retryTimers, sinceCall>>

ingVars == <<store, ipc, maxBlock, currentBlock, currentChunkSize, highestCachedBlock,
             nLogs, nOk, nFail, lastQuery, okFrom, okTo, gapFree, scenario, lastError, sweptTo,
             runs, job, rerunOf>>

resVars == <<rpc, chain, missing, targetTimestamp, searchStart, endBlock, foundBlock>>

redVars == <<hpc, fromBlock, toBlock, holderMap>>

balVars == <<bpc, walletAddress, balanceOf, attempts, results, completed, total,
             rpcFailures, answered, crashed>>

vars == <<rlVars, ingVars, resVars, redVars, balVars>>

notRLVars == <<ingVars, resVars, redVars, balVars>>
notIngVars == <<rlVars, resVars, redVars, balVars>>
notResVars == <<rlVars, ingVars, redVars, balVars>>
notRedVars == <<rlVars, ingVars, resVars, balVars>>
notBalVars == <<ingVars, resVars, redVars>>

TaskIds == 1..MaxTasks

\* no setTimeout of a retry is pending
NoTimers == [t \in {} |-> 0]

(***************************************************************************)
(* RateLimiter                                                             *)
(***************************************************************************)

Saturate(t) == IF t > interval THEN interval ELSE t

\* The limiter's fields, with the observers of its starts, as one value:
\* queue, timeoutId, timers, since (= Date.now() - lastDispatchTime), running,
\* started, sinceStart, startGaps.
Limiter ==
    [queue |-> queue, timeoutId |-> timeoutId, timers |-> timers,
     since |-> timeSinceLastDispatch, running |-> running, started |-> started,
     sinceStart |-> sinceStart, startGaps |-> startGaps]

\* a start that takes the newest entry of the queue (queue.pop()) instead of the oldest
StartNewest(st) ==
    LET last == st.queue[Len(st.queue)]
    IN [st EXCEPT !.queue = SubSeq(@, 1, Len(@) - 1),
                  !.since = 0,
                  !.running = @ \cup {last},
                  !.started = Append(@, last),
                  !.startGaps = IF st.sinceStart >= 0 THEN Append(@, st.sinceStart) ELSE @,
                  !.sinceStart = 0]

\* const {fn, resolve, reject} = this.queue.shift(); this.lastDispatchTime = now; fn()
StartHead(st) ==
    [st EXCEPT !.queue = Tail(@),
               !.since = 0,
               !.running = @ \cup {Head(st.queue)},
               !.started = Append(@, Head(st.queue)),
               !.startGaps = IF st.sinceStart >= 0 THEN Append(@, st.sinceStart) ELSE @,
               !.sinceStart = 0]

\* this.timeoutId = setTimeout(..., this.interval - timeSinceLastDispatch)
ArmTimer(st) ==
    [st EXCEPT !.timeoutId = HANDLE, !.timers = Append(@, interval - st.since)]

\* dispatch() that starts the head of the queue without looking at the clock
dispatchUnspaced(st) ==
    IF st.timeoutId # NULL THEN st
    ELSE IF Len(st.queue) > 0 THEN StartHead(st)
    ELSE st

\* dispatch() that arms no timer when the head of the queue has to wait
dispatchNoTimer(st) ==
    IF st.timeoutId # NULL THEN st
    ELSE IF Len(st.queue) > 0 /\ st.since >= interval THEN StartHead(st)
    ELSE st

\* dispatch() that, having started the head, arms a timer for the rest of the queue
dispatchRearms(st) ==
    IF st.timeoutId # NULL THEN st
    ELSE IF Len(st.queue) > 0 /\ st.since >= interval
    THEN IF Len(st.queue) > 1 THEN ArmTimer(StartHead(st)) ELSE StartHead(st)
    ELSE IF Len(st.queue) > 0 THEN ArmTimer(st)
    ELSE st

\* dispatch()
dispatch(st) ==
    IF st.timeoutId # NULL THEN st
    ELSE IF Len(st.queue) > 0 /\ st.since >= interval THEN StartHead(st)
    ELSE IF Len(st.queue) > 0 THEN ArmTimer(st)
    ELSE st

\* add(fn): this.queue.push({fn, resolve, reject}); this.dispatch()
addTask(st, t) == dispatch([st EXCEPT !.queue = Append(@, t)])

\* the finally callback of a started task: this.timeoutId = null; this.dispatch()
afterTask(st, t) == dispatch([st EXCEPT !.running = @ \ {t}, !.timeoutId = NULL])

RemoveAt(s, i) == SubSeq(s, 1, i - 1) \o SubSeq(s, i + 1, Len(s))

\* the setTimeout callback: this.timeoutId = null; this.dispatch()
afterTimer(st, i) == dispatch([st EXCEPT !.timers = RemoveAt(@, i), !.timeoutId = NULL])

\* the limiter's fields become those of st
SetLimiter(st) ==
    /\ queue' = st.queue
    /\ timeoutId' = st.timeoutId
    /\ timers' = st.timers
    /\ timeSinceLastDispatch' = st.since
    /\ running' = st.running
    /\ started' = st.started
    /\ sinceStart' = st.sinceStart
    /\ startGaps' = st.startGaps

\* new RateLimiter(25): lastDispatchTime = 0, and Date.now() is far past it
RLIdle ==
    /\ queue = <<>>
    /\ timeSinceLastDispatch = interval
    /\ timeoutId = NULL
    /\ timers = <<>>
    /\ running = {}
    /\ future = [t \in TaskIds |-> "none"]
    /\ nAdded = 0
    /\ started = <<>>
    /\ sinceStart = -1
    /\ startGaps = <<>>
    /\ retryTimers = NoTimers
    /\ sinceCall = -1

\* add(fn) is called
add ==
    /\ nAdded < MaxTasks
    /\ nAdded' = nAdded + 1
    /\ future' = [future EXCEPT ![nAdded + 1] = "pending"]
    /\ SetLimiter(addTask(Limiter, nAdded + 1))
    /\ UNCHANGED <<quantum, retryTimers, sinceCall>>
    /\ UNCHANGED notRLVars

\* fn() settles: .then(resolve) or .catch(reject), then the finally callback
TaskSettles(t, ok) ==
    /\ t \in running
    /\ future' = [future EXCEPT ![t] = IF ok THEN "resolved" ELSE "rejected"]
    /\ SetLimiter(afterTask(Limiter, t))
    /\ UNCHANGED <<nAdded, quantum, retryTimers, sinceCall>>
    /\ UNCHANGED notRLVars

\* the setTimeout callback of dispatch() runs: its delay has elapsed
TimerFires(i) ==
    /\ i \in 1..Len(timers)
    /\ timers[i] = 0
    /\ SetLimiter(afterTimer(Limiter, i))
    /\ UNCHANGED <<future, nAdded, quantum, retryTimers, sinceCall>>
    /\ UNCHANGED notRLVars

Elapse(remaining, ms) == IF remaining > ms THEN remaining - ms ELSE 0

\* quantum milliseconds of wall time pass
Tick ==
    /\ \/ timeSinceLastDispatch < interval
       \/ \E i \in 1..Len(timers) : timers[i] > 0
       \/ (sinceStart >= 0 /\ sinceStart < interval)
       \/ \E t \in DOMAIN retryTimers : retryTimers[t] > 0
       \/ (sinceCall >= 0 /\ sinceCall < interval)
    /\ timeSinceLastDispatch' = Saturate(timeSinceLastDispatch + quantum)
    /\ timers' = [i \in 1..Len(timers) |-> Elapse(timers[i], quantum)]
    /\ sinceStart' = IF sinceStart >= 0 THEN Saturate(sinceStart + quantum) ELSE sinceStart
    /\ retryTimers' = [t \in DOMAIN retryTimers |-> Elapse(retryTimers[t], quantum)]
    /\ sinceCall' = IF sinceCall >= 0 THEN Saturate(sinceCall + quantum) ELSE sinceCall
    /\ UNCHANGED <<queue, timeoutId, running, future, nAdded, started, startGaps, quantum>>
    /\ UNCHANGED notRLVars

(***************************************************************************)
(* The remote event feed and the event cache                               *)
(***************************************************************************)

ZeroAddress == "0x0000000000000000000000000000000000000000"
Alice == "0xA11ce"
Bob == "0xB0b"

Event(h, i, tx, from, to, id) ==
    [blockNumber |-> h, logIndex |-> i, transactionHash |-> tx,
     fromAddress |-> from, toAddress |-> to, tokenId |-> id]

\* Transfer logs of the contract that the model follows individually, in chain order
Feed ==
    << Event(startBlock, 0, "tx1", ZeroAddress, Alice, "1"),
       Event(startBlock + 60000, 0, "tx2", Alice, Bob, "1"),
       Event(startBlock + 60000, 1, "tx2", ZeroAddress, Alice, "2"),
       Event(startBlock + 120000, 0, "tx3", Alice, ZeroAddress, "2") >>


\* events.length values a successful query reports (the followed logs are among them)
LogCounts == {0, 500, 5000, 9500}

\* contract.queryFilter(holder, from, to): the logs of the range, in chain order
queryFilter(from, to) ==
    LET InRange(e) == e.blockNumber >= from /\ e.blockNumber <= to
    IN SelectSeq(Feed, InRange)

\* UNIQUE(blockNumber, transactionHash): the log index left out of the key
SameKeyNoLogIndex(r, e) ==
    /\ r.blockNumber = e.blockNumber
    /\ r.transactionHash = e.transactionHash

SameKey(r, e) ==
    /\ r.blockNumber = e.blockNumber
    /\ r.logIndex = e.logIndex
    /\ r.transactionHash = e.transactionHash

\* INSERT with no uniqueness constraint to ignore on
InsertAlways(rows, e) == Append(rows, e)

\* INSERT OR IGNORE under UNIQUE(blockNumber, logIndex, transactionHash)
InsertOrIgnore(rows, e) ==
    IF \E k \in 1..Len(rows) : SameKey(rows[k], e) THEN rows ELSE Append(rows, e)

RECURSIVE bulkInsertEvents(_, _)
bulkInsertEvents(rows, events) ==
    IF events = <<>> THEN rows
    ELSE bulkInsertEvents(InsertOrIgnore(rows, Head(events)), Tail(events))

RECURSIVE MaxBlockNumber(_)
MaxBlockNumber(rows) ==
    IF rows = <<>> THEN 0
    ELSE LET m == MaxBlockNumber(Tail(rows))
         IN IF Head(rows).blockNumber > m THEN Head(rows).blockNumber ELSE m

\* SELECT MAX(blockNumber); row.maxBlock || -1
GetHighestCachedBlock(rows) ==
    IF rows = <<>> \/ MaxBlockNumber(rows) = 0 THEN -1 ELSE MaxBlockNumber(rows)

(***************************************************************************)
(* getTransactionThroughBlock                                              *)
(***************************************************************************)

Min(a, b) == IF a < b THEN a ELSE b
Max(a, b) == IF a > b THEN a ELSE b

\* the end of the chunk, not clipped to the target
toBlockChunkUnclipped(cur, chunk, max) == cur + chunk - 1

\* Math.min(currentBlock + currentChunkSize - 1, maxBlock)
toBlockChunk(cur, chunk, max) == Min(cur + chunk - 1, max)

\* the chunk size after a successful query that returned n logs
ChunkAfterSuccess(chunk, n) ==
    IF n >= MAX_LOGS_PER_QUERY
    THEN Max(MIN_CHUNK_SIZE, (chunk * 3) \div 4)
    ELSE IF n < MIN_LOGS_TO_INCREASE_CHUNK /\ chunk < MAX_CHUNK_SIZE
    THEN Min(MAX_CHUNK_SIZE, (chunk * 5) \div 4)
    ELSE IF n = 0 /\ chunk < MAX_CHUNK_SIZE
    THEN Min(MAX_CHUNK_SIZE, chunk * 2)
    ELSE chunk

\* halving with no floor
ChunkAfterErrorNoFloor(chunk, overflow) ==
    IF overflow THEN chunk \div 2 ELSE chunk

\* the chunk size after a failed query; overflow: 'query returned more than' in the message
ChunkAfterError(chunk, overflow) ==
    IF overflow THEN Max(MIN_CHUNK_SIZE, chunk \div 2) ELSE chunk

NoStore == <<>>
Some(x) == <<x>>
NoQuery == [from |-> -1, to |-> -1, ok |-> FALSE]

\* What the environment does in one behaviour: the targets asked for, and how many
\* successful queries, failed queries and process starts it takes.
Scenarios ==
    { [name |-> "resume", targets |-> {startBlock + 120000, startBlock + 150000},
       windows |-> ResumeWindows, failures |-> ResumeFailures, runs |-> MaxRuns],
      [name |-> "sweep", targets |-> {startBlock + 420000},
       windows |-> MaxWindows, failures |-> MaxFailures, runs |-> 1],
      [name |-> "storm", targets |-> {startBlock + 420000},
       windows |-> StormWindows, failures |-> StormFailures, runs |-> 1] }

IngLocalsIdle ==
    /\ ipc = "idle"
    /\ maxBlock = 0
    /\ currentBlock = 0
    /\ currentChunkSize = 0
    /\ highestCachedBlock = 0
    /\ nLogs = -1
    /\ nOk = 0
    /\ nFail = 0
    /\ lastQuery = NoQuery
    /\ okFrom = -1
    /\ okTo = -1
    /\ gapFree = TRUE
    /\ runs = 0
    /\ job = [target |-> 0, store |-> <<>>, restarts |-> 0]
    /\ rerunOf = NoStore
    /\ lastError = "none"
    /\ sweptTo = 0
    /\ scenario = [name |-> "none", targets |-> {}, windows |-> 0, failures |-> 0,
                   runs |-> 0]

IngIdle ==
    /\ store = <<>>
    /\ IngLocalsIdle

\* the call, up to the while loop: read the highest cached block, return if it reaches the target
StartRun(target) ==
    /\ ipc \in {"idle", "done"}
    /\ runs < scenario.runs
    /\ runs' = runs + 1
    /\ maxBlock' = target
    /\ currentBlock' = startBlock
    /\ currentChunkSize' = InitialChunkSize
    /\ highestCachedBlock' = GetHighestCachedBlock(store)
    /\ ipc' = IF GetHighestCachedBlock(store) >= target THEN "done" ELSE "loop"
    /\ nLogs' = -1
    /\ nOk' = 0
    /\ nFail' = 0
    /\ lastQuery' = NoQuery
    /\ okFrom' = -1
    /\ okTo' = -1
    /\ gapFree' = TRUE
    /\ job' = IF ipc = "idle" /\ runs > 0 /\ job.target = target
              THEN [job EXCEPT !.restarts = @ + 1]
              ELSE [target |-> target, store |-> store, restarts |-> 0]
    /\ rerunOf' = IF ipc = "done" /\ maxBlock = target THEN Some(store) ELSE NoStore
    /\ lastError' = "none"
    /\ sweptTo' = IF ipc = "done" THEN Max(sweptTo, maxBlock) ELSE sweptTo
    /\ UNCHANGED <<store, scenario>>
    /\ UNCHANGED notIngVars

\* while head, 'highestCachedBlock > currentBlock': skip to the highest cached block
SkipToCached ==
    /\ ipc = "loop"
    /\ currentBlock <= maxBlock
    /\ highestCachedBlock > currentBlock
    /\ currentBlock' = highestCachedBlock
    /\ UNCHANGED <<store, ipc, maxBlock, currentChunkSize, highestCachedBlock, nLogs,
                   nOk, nFail, lastQuery, okFrom, okTo, gapFree, runs, job, rerunOf,
                   scenario, lastError, sweptTo>>
    /\ UNCHANGED notIngVars

AtQuery ==
    /\ ipc = "loop"
    /\ currentBlock <= maxBlock
    /\ ~(highestCachedBlock > currentBlock)

\* queryFilter returns n logs; they are inserted, the chunk is resized, the cursor moves on
QuerySucceeds(n) ==
    /\ AtQuery
    /\ nOk < scenario.windows
    /\ LET to == toBlockChunk(currentBlock, currentChunkSize, maxBlock)
           events == queryFilter(currentBlock, to)
       IN /\ n >= Len(events)
          /\ lastQuery' = [from |-> currentBlock, to |-> to, ok |-> TRUE]
          /\ okFrom' = IF nOk = 0 THEN currentBlock ELSE okFrom
          /\ okTo' = to
          /\ gapFree' = (gapFree /\ (nOk = 0 \/ currentBlock = okTo + 1))
          /\ store' = bulkInsertEvents(store, events)
          /\ nLogs' = n
          /\ currentChunkSize' = ChunkAfterSuccess(currentChunkSize, n)
          /\ currentBlock' = to + 1
    /\ nOk' = nOk + 1
    /\ lastError' = "none"
    /\ UNCHANGED <<ipc, maxBlock, highestCachedBlock, nFail, runs, job, rerunOf, scenario,
                   sweptTo>>
    /\ UNCHANGED notIngVars

\* a catch block that gives the failed window up and moves on to the next one
QueryFailsSkipsWindow(overflow) ==
    /\ AtQuery
    /\ nFail < scenario.failures
    /\ LET to == toBlockChunk(currentBlock, currentChunkSize, maxBlock)
       IN /\ lastQuery' = [from |-> currentBlock, to |-> to, ok |-> FALSE]
          /\ currentBlock' = to + 1
    /\ currentChunkSize' = ChunkAfterError(currentChunkSize, overflow)
    /\ nFail' = nFail + 1
    /\ lastError' = IF overflow THEN "overflow" ELSE "other"
    /\ UNCHANGED <<store, ipc, maxBlock, highestCachedBlock, nLogs, nOk,
                   okFrom, okTo, gapFree, runs, job, rerunOf, scenario, sweptTo>>
    /\ UNCHANGED notIngVars

\* queryFilter throws; the catch block resizes on overflow, waits 150 ms and retries
QueryFails(overflow) ==
    /\ AtQuery
    /\ nFail < scenario.failures
    /\ LET to == toBlockChunk(currentBlock, currentChunkSize, maxBlock)
       IN lastQuery' = [from |-> currentBlock, to |-> to, ok |-> FALSE]
    /\ currentChunkSize' = ChunkAfterError(currentChunkSize, overflow)
    /\ nFail' = nFail + 1
    /\ lastError' = IF overflow THEN "overflow" ELSE "other"
    /\ UNCHANGED <<store, ipc, maxBlock, currentBlock, highestCachedBlock, nLogs, nOk,
                   okFrom, okTo, gapFree, runs, job, rerunOf, scenario, sweptTo>>
    /\ UNCHANGED notIngVars

\* queryFilter answers but db.bulkInsertEvents rejects: the await throws inside the same
\* try, so the same catch block runs. A sqlite message holds no 'query returned more
\* than'. rolledBack: stmt.finalize failed and ROLLBACK ran; otherwise COMMIT failed
\* and the rows stay in the open transaction, where this connection reads them.
InsertFails(rolledBack) ==
    /\ AtQuery
    /\ nFail < scenario.failures
    /\ LET to == toBlockChunk(currentBlock, currentChunkSize, maxBlock)
           events == queryFilter(currentBlock, to)
       IN /\ lastQuery' = [from |-> currentBlock, to |-> to, ok |-> FALSE]
          /\ store' = IF rolledBack THEN store ELSE bulkInsertEvents(store, events)
    /\ currentChunkSize' = ChunkAfterError(currentChunkSize, FALSE)
    /\ nFail' = nFail + 1
    /\ lastError' = "store"
    /\ UNCHANGED <<ipc, maxBlock, currentBlock, highestCachedBlock, nLogs, nOk,
                   okFrom, okTo, gapFree, runs, job, rerunOf, scenario, sweptTo>>
    /\ UNCHANGED notIngVars

\* db.GetHighestCachedBlock() rejects: the await is outside the try, so the call throws
\* to main, which catches nothing
GetHighestCachedBlockFails(target) ==
    /\ ipc \in {"idle", "done"}
    /\ runs < scenario.runs
    /\ runs' = runs + 1
    /\ ipc' = "failed"
    /\ maxBlock' = target
    /\ lastError' = "store"
    /\ UNCHANGED <<store, currentBlock, currentChunkSize, highestCachedBlock, nLogs, nOk,
                   nFail, lastQuery, okFrom, okTo, gapFree, job, rerunOf, scenario, sweptTo>>
    /\ UNCHANGED notIngVars

\* the while condition fails: the function returns
LoopExit ==
    /\ ipc = "loop"
    /\ currentBlock > maxBlock
    /\ ipc' = "done"
    /\ UNCHANGED <<store, maxBlock, currentBlock, currentChunkSize, highestCachedBlock,
                   nLogs, nOk, nFail, lastQuery, okFrom, okTo, gapFree, runs, job,
                   rerunOf, scenario, lastError, sweptTo>>
    /\ UNCHANGED notIngVars

\* the process stops between two windows; only the database file survives
Restart ==
    /\ ipc = "loop"
    /\ runs < scenario.runs
    /\ ipc' = "idle"
    /\ maxBlock' = 0
    /\ currentBlock' = 0
    /\ currentChunkSize' = 0
    /\ highestCachedBlock' = 0
    /\ nLogs' = -1
    /\ nOk' = 0
    /\ nFail' = 0
    /\ lastQuery' = NoQuery
    /\ okFrom' = -1
    /\ okTo' = -1
    /\ gapFree' = TRUE
    /\ rerunOf' = NoStore
    /\ lastError' = "none"
    /\ UNCHANGED <<store, runs, job, scenario, sweptTo>>
    /\ UNCHANGED notIngVars

(***************************************************************************)
(* findBlockByTimestamp                                                    *)
(***************************************************************************)

\* let foundBlock = null
NoBlock == -1

ResIdle ==
    /\ rpc = "idle"
    /\ chain = <<>>
    /\ missing = {}
    /\ targetTimestamp = 0
    /\ searchStart = 0
    /\ endBlock = 0
    /\ foundBlock = NoBlock

Abs(x) == IF x < 0 THEN -x ELSE x

\* block.timestamp of provider.getBlock(h)
Timestamp(h) == chain[h + 1]

\* Math.floor((startBlock + endBlock) / 2)
midBlock(lo, hi) == (lo + hi) \div 2

\* the search with the two halves swapped
SearchVerdictSwapped(ts, target) ==
    IF Abs(ts - target) <= tolerance THEN "found"
    ELSE IF ts > target THEN "upper"
    ELSE "lower"

\* what one pass of the while body decides for the block at mid
SearchVerdict(ts, target) ==
    IF Abs(ts - target) <= tolerance THEN "found"
    ELSE IF ts < target THEN "upper"
    ELSE "lower"

\* startBlock = 0; endBlock = await provider.getBlockNumber()
SearchStart ==
    /\ rpc = "idle"
    /\ rpc' = "search"
    /\ searchStart' = 0
    /\ endBlock' = Len(chain) - 1
    /\ foundBlock' = NoBlock
    /\ UNCHANGED <<chain, missing, targetTimestamp>>
    /\ UNCHANGED notResVars

\* one pass of the while body
SearchStep ==
    /\ rpc = "search"
    /\ searchStart <= endBlock
    /\ LET mid == midBlock(searchStart, endBlock)
       IN IF mid \in missing
          THEN \* getBlock returned null: break
               /\ rpc' = "done"
               /\ UNCHANGED <<searchStart, endBlock, foundBlock>>
          ELSE LET v == SearchVerdict(Timestamp(mid), targetTimestamp)
               IN /\ rpc' = IF v = "found" THEN "done" ELSE "search"
                  /\ foundBlock' = IF v = "found" THEN mid ELSE foundBlock
                  /\ searchStart' = IF v = "upper" THEN mid + 1 ELSE searchStart
                  /\ endBlock' = IF v = "lower" THEN mid - 1 ELSE endBlock
    /\ UNCHANGED <<chain, missing, targetTimestamp>>
    /\ UNCHANGED notResVars

\* the while condition fails: return foundBlock (null)
SearchExhausted ==
    /\ rpc = "search"
    /\ searchStart > endBlock
    /\ rpc' = "done"
    /\ UNCHANGED <<chain, missing, targetTimestamp, searchStart, endBlock, foundBlock>>
    /\ UNCHANGED notResVars

(***************************************************************************)
(* getHolderMapByBlock                                                     *)
(***************************************************************************)

EmptyMap == [t \in {} |-> ZeroAddress]

RedIdle ==
    /\ hpc = "idle"
    /\ fromBlock = 0
    /\ toBlock = 0
    /\ holderMap = EmptyMap

\* BigInt(row.tokenId) in getEventsByBlockRange
BigIntOf(str) == CASE str = "1" -> 1 [] str = "2" -> 2 [] str = "10" -> 10

\* event.args.tokenId.toString()
BigIntToString(n) == CASE n = 1 -> "1" [] n = 2 -> "2" [] n = 10 -> "10"

\* ORDER BY logIndex ASC, blockNumber ASC
BeforeByLogIndex(a, b) ==
    \/ a.logIndex < b.logIndex
    \/ (a.logIndex = b.logIndex /\ a.blockNumber < b.blockNumber)

\* ORDER BY blockNumber ASC, logIndex ASC
Before(a, b) ==
    \/ a.blockNumber < b.blockNumber
    \/ (a.blockNumber = b.blockNumber /\ a.logIndex < b.logIndex)

RECURSIVE InsertSorted(_, _)
InsertSorted(sorted, r) ==
    IF sorted = <<>> THEN <<r>>
    ELSE IF Before(r, Head(sorted)) THEN <<r>> \o sorted
    ELSE <<Head(sorted)>> \o InsertSorted(Tail(sorted), r)

RECURSIVE OrderBy(_)
OrderBy(rows) ==
    IF rows = <<>> THEN <<>>
    ELSE InsertSorted(OrderBy(Tail(rows)), Head(rows))

\* db.getEventsByBlockRange(fromBlock, toBlock): the rows of the range, ordered, each
\* reshaped to {blockNumber, logIndex, transactionHash, args: {from, to, tokenId}}
getEventsByBlockRange(rows, from, to) ==
    LET InRange(r) == r.blockNumber >= from /\ r.blockNumber <= to
        ordered == OrderBy(SelectSeq(rows, InRange))
    IN [k \in 1..Len(ordered) |->
          [blockNumber |-> ordered[k].blockNumber,
           logIndex |-> ordered[k].logIndex,
           transactionHash |-> ordered[k].transactionHash,
           args |-> [from |-> ordered[k].fromAddress,
                     to |-> ordered[k].toAddress,
                     tokenId |-> BigIntOf(ordered[k].tokenId)]]]

\* holderMap.delete(tokenId)
MapDelete(m, key) == [t \in (DOMAIN m) \ {key} |-> m[t]]

\* holderMap.set(tokenId, holder)
MapSet(m, key, value) == [t \in (DOMAIN m) \cup {key} |-> IF t = key THEN value ELSE m[t]]

\* the body of the for loop, for one event
ApplyTransfer(m, event) ==
    LET holder == event.args.to
        tokenId == BigIntToString(event.args.tokenId)
    IN IF holder = ZeroAddress THEN MapDelete(m, tokenId) ELSE MapSet(m, tokenId, holder)

RECURSIVE FoldTransfers(_, _)
FoldTransfers(m, events) ==
    IF events = <<>> THEN m
    ELSE FoldTransfers(ApplyTransfer(m, Head(events)), Tail(events))

getHolderMapByBlock(rows, from, to) ==
    FoldTransfers(EmptyMap, getEventsByBlockRange(rows, from, to))

\* the call of getHolderMapByBlock
BuildHolderMap ==
    /\ hpc = "idle"
    /\ hpc' = "done"
    /\ holderMap' = getHolderMapByBlock(store, fromBlock, toBlock)
    /\ UNCHANGED <<fromBlock, toBlock>>
    /\ UNCHANGED notRedVars

(***************************************************************************)
(* getWalletBalance                                                        *)
(***************************************************************************)

\* A bigint (wei) is held as three digits of base 10^9, lowest first, so that one
\* ether, 10^18 wei, is <<0, 0, 1>>.
Base == 10 ^ 9
Wei(n) == <<n, 0, 0>>
BigZero == <<0, 0, 0>>

\* a + b on bigints
BigAdd(a, b) ==
    LET s1 == a[1] + b[1]
        s2 == a[2] + b[2] + (s1 \div Base)
    IN <<s1 % Base, s2 % Base, a[3] + b[3] + (s2 \div Base)>>

\* ethers.formatEther(sum): the decimal string "<ether>.<18 fraction digits>", held as
\* the ether count and the fraction's two groups of nine digits
formatEther(wei) == [ether |-> wei[3], fraction |-> <<wei[2], wei[1]>>]

NoTotal == [ether |-> -1, fraction |-> <<>>]

BalIdle ==
    /\ bpc = "idle"
    /\ walletAddress = <<>>
    /\ balanceOf = <<>>
    /\ attempts = [t \in TaskIds |-> 0]
    /\ results = [t \in TaskIds |-> BigZero]
    /\ completed = 0
    /\ total = NoTotal
    /\ rpcFailures = 0
    /\ answered = <<>>
    /\ crashed = {}

\* the loop condition with MAX_RETRIES = 1
RetryAllowedOnce(n) == n < 1

\* while (attempts < MAX_RETRIES), with MAX_RETRIES = Infinity
RetryAllowed(n) == TRUE

\* walletAddress.map((address) => rateLimiter.add(...)): the adds of one synchronous burst
RECURSIVE addAll(_, _, _)
addAll(st, t, n) ==
    IF t > n THEN st ELSE addAll(addTask(st, t), t + 1, n)

\* a task started by dispatch() makes its first provider.getBalance call
FirstAttempts(st) ==
    [t \in TaskIds |-> IF t \in st.running /\ t \notin running THEN 1 ELSE attempts[t]]

\* balanceEth.forEach(balance => { sum += balance })
RECURSIVE SumFrom(_, _, _)
SumFrom(sum, k, n) ==
    IF k > n THEN sum ELSE SumFrom(BigAdd(sum, results[k]), k + 1, n)

\* getWalletBalance is called: every address is handed to the limiter
SumStart ==
    /\ bpc = "idle"
    /\ bpc' = "awaiting"
    /\ completed' = 0
    /\ LET n == Len(walletAddress)
           st == addAll(Limiter, 1, n)
       IN /\ SetLimiter(st)
          /\ attempts' = FirstAttempts(st)
          /\ nAdded' = n
          /\ future' = [t \in TaskIds |-> IF t <= n THEN "pending" ELSE future[t]]
    /\ UNCHANGED <<walletAddress, balanceOf, results, total, rpcFailures, answered, crashed>>
    /\ sinceCall' = IF attempts' # attempts THEN 0 ELSE sinceCall
    /\ UNCHANGED <<quantum, retryTimers>>
    /\ UNCHANGED notBalVars

Calling(t) == t \in running /\ t \notin DOMAIN retryTimers

\* provider.getBalance answers: the task's promise resolves with the balance, and the
\* limiter's finally callback runs
BalanceReturns(t) ==
    /\ bpc = "awaiting"
    /\ Calling(t)
    /\ completed' = completed + 1
    /\ results' = [results EXCEPT ![t] = balanceOf[walletAddress[t]]]
    /\ future' = [future EXCEPT ![t] = "resolved"]
    /\ answered' = Append(answered, t)
    /\ LET st == afterTask(Limiter, t)
       IN /\ SetLimiter(st)
          /\ attempts' = FirstAttempts(st)
    /\ UNCHANGED <<bpc, walletAddress, balanceOf, total, rpcFailures>>
    /\ sinceCall' = IF attempts' # attempts THEN 0 ELSE sinceCall
    /\ UNCHANGED <<nAdded, quantum, retryTimers>>
    /\ UNCHANGED crashed
    /\ UNCHANGED notBalVars

\* provider.getBalance throws: warn, then setTimeout(resolve, RETRY_DELAY_MS)
BalanceFails(t) ==
    /\ bpc = "awaiting"
    /\ Calling(t)
    /\ rpcFailures < MaxRpcFailures
    /\ rpcFailures' = rpcFailures + 1
    /\ retryTimers' = [u \in DOMAIN retryTimers \cup {t} |->
                          IF u = t THEN RETRY_DELAY_MS ELSE retryTimers[u]]
    /\ UNCHANGED <<bpc, walletAddress, balanceOf, attempts, results, completed, total,
                   answered, crashed>>
    /\ UNCHANGED <<queue, timeSinceLastDispatch, timeoutId, timers, running, future,
                   nAdded, started, sinceStart, startGaps, quantum, sinceCall>>
    /\ UNCHANGED notBalVars

\* the retry delay has elapsed: the while condition is tested again
RetryFires(t) ==
    /\ bpc = "awaiting"
    /\ t \in DOMAIN retryTimers
    /\ retryTimers[t] = 0
    /\ retryTimers' = [u \in DOMAIN retryTimers \ {t} |-> retryTimers[u]]
    /\ IF RetryAllowed(attempts[t])
       THEN \* attempts++; provider.getBalance is called again
            /\ attempts' = [attempts EXCEPT ![t] = @ + 1]
            /\ UNCHANGED <<results, completed, future, answered>>
            /\ UNCHANGED <<queue, timeSinceLastDispatch, timeoutId, timers, running,
                           started, sinceStart, startGaps>>
       ELSE \* return ethers.parseUnits('0', 'wei'): the task resolves with zero
            /\ completed' = completed + 1
            /\ results' = [results EXCEPT ![t] = BigZero]
            /\ future' = [future EXCEPT ![t] = "resolved"]
            /\ answered' = Append(answered, t)
            /\ LET st == afterTask(Limiter, t)
               IN /\ SetLimiter(st)
                  /\ attempts' = FirstAttempts(st)
    /\ UNCHANGED <<bpc, walletAddress, balanceOf, total, rpcFailures>>
    /\ sinceCall' = IF attempts' # attempts THEN 0 ELSE sinceCall
    /\ UNCHANGED <<nAdded, quantum>>
    /\ UNCHANGED crashed
    /\ UNCHANGED notBalVars

\* provider.getBalance rejects with a value that has no message (null, undefined): the
\* catch block of fetchBalanceWithRetry throws on error.message, the rejection leaves the
\* retry loop, and the .catch of the task returns ethers.parseUnits('0', 'wei')
TaskCrashes(t) ==
    /\ bpc = "awaiting"
    /\ Calling(t)
    /\ crashed' = crashed \cup {t}
    /\ results' = [results EXCEPT ![t] = BigZero]
    /\ future' = [future EXCEPT ![t] = "resolved"]
    /\ answered' = Append(answered, t)
    /\ LET st == afterTask(Limiter, t)
       IN /\ SetLimiter(st)
          /\ attempts' = FirstAttempts(st)
    /\ sinceCall' = IF attempts' # attempts THEN 0 ELSE sinceCall
    /\ UNCHANGED <<bpc, walletAddress, balanceOf, completed, total, rpcFailures>>
    /\ UNCHANGED <<nAdded, quantum, retryTimers>>
    /\ UNCHANGED notBalVars

\* the limiter's setTimeout callback runs while balances are aggregated
DispatchTimerFires(i) ==
    /\ bpc = "awaiting"
    /\ i \in 1..Len(timers)
    /\ timers[i] = 0
    /\ LET st == afterTimer(Limiter, i)
       IN /\ SetLimiter(st)
          /\ attempts' = FirstAttempts(st)
    /\ UNCHANGED <<bpc, walletAddress, balanceOf, results, completed, total, rpcFailures,
                   answered, crashed>>
    /\ sinceCall' = IF attempts' # attempts THEN 0 ELSE sinceCall
    /\ UNCHANGED <<future, nAdded, quantum, retryTimers>>
    /\ UNCHANGED notBalVars

\* Promise.all(balances) resolves: the balances are summed and the total is returned
SumReturns ==
    /\ bpc = "awaiting"
    /\ \A t \in 1..Len(walletAddress) : future[t] = "resolved"
    /\ bpc' = "returned"
    /\ total' = formatEther(SumFrom(BigZero, 1, Len(walletAddress)))
    /\ UNCHANGED <<walletAddress, balanceOf, attempts, results, completed, rpcFailures,
                   answered, crashed>>
    /\ UNCHANGED rlVars
    /\ UNCHANGED notBalVars

(***************************************************************************)
(* Ingestion runs against one store, with restarts                         *)
(***************************************************************************)

InitIngest ==
    /\ BalIdle
    /\ RLIdle
    /\ quantum = LimiterQuantum
    /\ ResIdle
    /\ RedIdle
    /\ store = <<>>
    /\ ipc = "idle"
    /\ maxBlock = 0
    /\ currentBlock = 0
    /\ currentChunkSize = 0
    /\ highestCachedBlock = 0
    /\ nLogs = -1
    /\ nOk = 0
    /\ nFail = 0
    /\ lastQuery = NoQuery
    /\ okFrom = -1
    /\ okTo = -1
    /\ gapFree = TRUE
    /\ runs = 0
    /\ job = [target |-> 0, store |-> <<>>, restarts |-> 0]
    /\ rerunOf = NoStore
    /\ lastError = "none"
    /\ sweptTo = 0
    /\ scenario \in Scenarios

NextIngest ==
    \/ \E target \in scenario.targets : StartRun(target)
    \/ SkipToCached
    \/ \E n \in LogCounts : QuerySucceeds(n)
    \/ \E overflow \in BOOLEAN : QueryFails(overflow)
    \/ LoopExit
    \/ Restart

SpecIngest == InitIngest /\ [][NextIngest]_vars

\* the same runs against a store whose statements can fail
NextIngestStore ==
    \/ \E target \in scenario.targets : StartRun(target)
    \/ \E target \in scenario.targets : GetHighestCachedBlockFails(target)
    \/ SkipToCached
    \/ \E n \in LogCounts : QuerySucceeds(n)
    \/ \E overflow \in BOOLEAN : QueryFails(overflow)
    \/ \E rolledBack \in BOOLEAN : InsertFails(rolledBack)
    \/ LoopExit
    \/ Restart

SpecIngestStore == InitIngest /\ [][NextIngestStore]_vars

\* getTransactionThroughBlock run to its end with no restart and no failed query
RECURSIVE SweepFrom(_, _, _, _)
SweepFrom(rows, cur, hc, target) ==
    IF cur > target THEN rows
    ELSE IF hc > cur THEN SweepFrom(rows, hc, hc, target)
    ELSE LET to == toBlockChunk(cur, InitialChunkSize, target)
         IN SweepFrom(bulkInsertEvents(rows, queryFilter(cur, to)), to + 1, hc, target)

UninterruptedRun(rows, target) ==
    IF GetHighestCachedBlock(rows) >= target THEN rows
    ELSE SweepFrom(rows, startBlock, GetHighestCachedBlock(rows), target)

Stored(e) == \E k \in 1..Len(store) : store[k] = e

\* C3 - Ingestion completeness: when a run returns, every log of the feed from the
\* deployment block up to the target is in the store; and within every run the
\* successful windows follow one another without a gap, end at or before the target,
\* begin no later than the cached prefix ends, and reach the target when the run returns.
IngestionComplete ==
    /\ gapFree
    /\ lastQuery.to <= maxBlock
    /\ nOk > 0 => okFrom <= Max(startBlock, highestCachedBlock)
    /\ ipc = "done" =>
          /\ \A k \in 1..Len(Feed) :
                (Feed[k].blockNumber >= startBlock /\ Feed[k].blockNumber <= maxBlock)
                    => Stored(Feed[k])
          /\ nOk > 0 => okTo = maxBlock

\* a run that was restarted earlier, met a failed query and resizes, and returned
IngestionCompleteWitness ==
    /\ ipc = "done"
    /\ job.restarts >= 1
    /\ nOk >= 2
    /\ nFail >= 1
    /\ currentChunkSize # InitialChunkSize
    /\ Len(store) = Len(Feed)

\* C4 - Resumability: a run that returns after the process was restarted in the middle
\* of an earlier run for the same target leaves the store that one uninterrupted run
\* from the same starting store leaves.
Resumable ==
    (ipc = "done" /\ job.restarts > 0) => store = UninterruptedRun(job.store, maxBlock)

\* the earlier run had committed windows, and the second run queried again
ResumableWitness ==
    /\ ipc = "done"
    /\ job.restarts > 0
    /\ highestCachedBlock > startBlock
    /\ nOk >= 1
    /\ Len(store) > 2

\* C5 - Idempotence: while and after the same target is ingested a second time in
\* succession, the store is the one the first call left.
Idempotent ==
    rerunOf # NoStore => store = rerunOf[1]

\* the second call has queried the remote again, re-inserted stored events and returned
IdempotentWitness ==
    /\ rerunOf # NoStore
    /\ ipc = "done"
    /\ nOk >= 1
    /\ \E k \in 1..Len(store) :
          store[k].blockNumber >= lastQuery.from /\ store[k].blockNumber <= lastQuery.to

ChunkSizeBounded ==
    ipc \in {"loop", "done"} =>
        (currentChunkSize >= MIN_CHUNK_SIZE /\ currentChunkSize <= MAX_CHUNK_SIZE)

\* the floor is met by halving after repeated overflow errors
ChunkSizeBoundedWitness ==
    /\ ipc = "loop"
    /\ currentChunkSize = MIN_CHUNK_SIZE
    /\ nFail >= 9

\* the ceiling is met by growing after sparse windows
ChunkSizeAtCeiling ==
    /\ ipc = "loop"
    /\ currentChunkSize = MAX_CHUNK_SIZE
    /\ nOk >= 5

\* C12 - Store failure is fatal: once a bulk insert (or any statement against the store)
\* has failed in a run, the call has thrown to the top level: the run is not sweeping,
\* retrying the window, or returning normally.
StoreFailureAborts ==
    lastError = "store" => ipc = "failed"

\* C16 - No re-fetch of known history: no query of a run covers a height that a run
\* before it already swept (heights up to sweptTo); a second run to the same target
\* issues no query at all.
NoRefetch ==
    lastQuery # NoQuery => lastQuery.from > sweptTo

\* C17 - Empty-window growth: a successful query that returns no logs while the chunk
\* size is below the ceiling doubles the chunk size, up to the ceiling.
EmptyWindowDoubles ==
    [][(nOk' = nOk + 1 /\ nLogs' = 0 /\ currentChunkSize < 150000)
          => currentChunkSize' = Min(150000, 2 * currentChunkSize)]_vars

\* C18 - Window failure policy: a failed fetch stores nothing and leaves the cursor where
\* it is; the chunk size is halved (not below 100) on the too-many-results error and
\* kept on any other; the call goes on sweeping instead of throwing.
WindowFailurePolicy ==
    [][(nFail' = nFail + 1)
          => /\ store' = store
             /\ currentBlock' = currentBlock
             /\ lastQuery'.from = currentBlock
             /\ lastError' \in {"overflow", "other"}
             /\ currentChunkSize' = IF lastError' = "overflow"
                                     THEN Max(100, currentChunkSize \div 2)
                                     ELSE currentChunkSize
             /\ ipc' = "loop"]_vars

\* after a stored window, a too-many-results failure halved the chunk and a failure of
\* another kind followed it, the cursor still at the window that failed
WindowFailurePolicyWitness ==
    /\ nOk >= 1
    /\ nFail >= 2
    /\ lastError = "other"
    /\ currentChunkSize < InitialChunkSize
    /\ lastQuery.ok = FALSE
    /\ lastQuery.from = currentBlock
    /\ store # <<>>

(***************************************************************************)
(* The RateLimiter under arbitrary add() calls, completions and timers     *)
(***************************************************************************)

InitLimiter ==
    /\ BalIdle
    /\ IngIdle
    /\ ResIdle
    /\ RedIdle
    /\ RLIdle
    /\ quantum = LimiterQuantum

NextLimiter ==
    \/ add
    \/ \E t \in TaskIds, ok \in BOOLEAN : TaskSettles(t, ok)
    \/ \E i \in 1..Len(timers) : TimerFires(i)
    \/ Tick

SpecLimiter == InitLimiter /\ [][NextLimiter]_vars

\* wall time passes, armed timers fire, and every started task settles
SpecLimiterFair ==
    /\ SpecLimiter
    /\ WF_vars(Tick)
    /\ WF_vars(\E i \in 1..Len(timers) : TimerFires(i))
    /\ \A t \in TaskIds : WF_vars(\E ok \in BOOLEAN : TaskSettles(t, ok))

\* wall time passes and armed timers fire; a started task may stay in flight for ever
SpecLimiterTimersFair ==
    /\ SpecLimiter
    /\ WF_vars(Tick)
    /\ WF_vars(\E i \in 1..Len(timers) : TimerFires(i))

Settled == {"resolved", "rejected"}

\* C1 - RateLimiter spacing: the wall time between the calls of any two consecutively
\* started tasks is at least interval.
StartsSpaced ==
    \A k \in 1..Len(startGaps) : startGaps[k] >= interval

\* all tasks were started, the later ones after waiting in the queue for a timer
StartsSpacedWitness ==
    /\ Len(started) = MaxTasks
    /\ Len(startGaps) = MaxTasks - 1
    /\ running # {}

\* C2 - RateLimiter liveness: every task handed to add() is eventually started and its
\* future settled, provided time passes, timers fire and started tasks settle.
EveryTaskSettles ==
    \A t \in TaskIds : (future[t] = "pending") ~> (t \notin running /\ future[t] \in Settled)

\* every task was added, started and settled, with both outcomes passed on
EveryTaskSettlesWitness ==
    /\ nAdded = MaxTasks
    /\ Len(started) = MaxTasks
    /\ queue = <<>>
    /\ \A t \in TaskIds : future[t] \in Settled
    /\ \E t \in TaskIds : future[t] = "rejected"
    /\ \E t \in TaskIds : future[t] = "resolved"

\* C11 - RateLimiter FIFO dispatch: tasks are started in the order of their add() calls
\* (task k is the k-th one added): the k-th start is always task k.
StartedInAddOrder ==
    \A k \in 1..Len(started) : started[k] = k

\* every task that was added has been started, and all of them are still running
StartedInAddOrderWitness ==
    /\ Len(started) = MaxTasks
    /\ nAdded = MaxTasks
    /\ queue = <<>>
    /\ running = TaskIds

\* C13 - Single pending timer: at most one dispatch timer is armed and not yet fired.
\* The finally callback of a task clears timeoutId without clearing the timer it names,
\* so the next dispatch() arms a second one.
SinglePendingTimer ==
    Len(timers) <= 1

\* C15 - No concurrency ceiling: every queued task is eventually started by the passing
\* of time alone (the clock and the timers), with no started task having to complete.
\* dispatch() starts one task and arms nothing behind it: the rest of the queue waits
\* for the next add() or for the finally callback of a running task.
QueuedStartsUnaided ==
    \A t \in TaskIds :
        (future[t] = "pending") ~> (\E k \in 1..Len(started) : started[k] = t)

(***************************************************************************)
(* findBlockByTimestamp over bounded chains                                *)
(***************************************************************************)

TimestampValues == {1000, 1299, 1300, 1550, 1900, 1901, 2500}
TargetValues == {1600, 3000}

\* block timestamps never decrease with the height
Monotone(c) == \A k \in 1..Len(c) - 1 : c[k] <= c[k + 1]

Chains ==
    UNION { {c \in [1..n -> TimestampValues] : Monotone(c)} : n \in 1..MaxHeight + 1 }

InitResolver ==
    /\ BalIdle
    /\ RLIdle
    /\ quantum = LimiterQuantum
    /\ IngIdle
    /\ RedIdle
    /\ rpc = "idle"
    /\ chain \in Chains
    /\ missing \in {{}} \cup {{h} : h \in 0..Len(chain) - 1}
    /\ targetTimestamp \in TargetValues
    /\ searchStart = 0
    /\ endBlock = 0
    /\ foundBlock = NoBlock

NextResolver ==
    \/ SearchStart
    \/ SearchStep
    \/ SearchExhausted

SpecResolver == InitResolver /\ [][NextResolver]_vars

\* the function keeps running until it returns
SpecResolverFair == SpecResolver /\ WF_vars(NextResolver)

WithinTolerance(h) == Abs(Timestamp(h) - targetTimestamp) <= tolerance

ResolvedRight ==
    (rpc = "done" /\ missing = {}) =>
        /\ foundBlock # NoBlock => WithinTolerance(foundBlock)
        /\ (\E h \in 0..Len(chain) - 1 : WithinTolerance(h)) => foundBlock # NoBlock
        /\ foundBlock = NoBlock => searchStart > endBlock

\* C9 - Checkpoint resolution: when every getBlock returns a block, the search returns;
\* what it returns is within tolerance of the target; it returns a block whenever some
\* height has one within tolerance; and it returns null only with the interval collapsed.
ResolveCorrect ==
    /\ []ResolvedRight
    /\ (missing = {}) => <>(rpc = "done")

\* a block within tolerance was returned after the search went down and up
ResolveCorrectWitness ==
    /\ rpc = "done"
    /\ missing = {}
    /\ foundBlock # NoBlock
    /\ searchStart > 0
    /\ endBlock < Len(chain) - 1

\* null was returned with the interval collapsed and no block within tolerance
ResolveNotFoundReached ==
    /\ rpc = "done"
    /\ missing = {}
    /\ foundBlock = NoBlock
    /\ Len(chain) > 2

\* C20 - Nearest checkpoint: the block returned is, of all blocks of the chain, one whose
\* timestamp is nearest to the target. The search returns the first midpoint it finds
\* within tolerance and looks no further.
ReturnsNearest ==
    (rpc = "done" /\ missing = {} /\ foundBlock # NoBlock) =>
        \A h \in 0..Len(chain) - 1 :
            Abs(Timestamp(foundBlock) - targetTimestamp) <= Abs(Timestamp(h) - targetTimestamp)

(***************************************************************************)
(* getHolderMapByBlock over bounded stores                                 *)
(***************************************************************************)

TokenIds == {"1", "2"}

RowUniverse ==
    { Event(h, i, "tx", ZeroAddress, to, id) :
        h \in {startBlock + 100, startBlock + 150}, i \in {0, 1},
        to \in {ZeroAddress, Alice, Bob}, id \in TokenIds }

\* a log index is used once within a block
DistinctPositions(rows) ==
    \A j, k \in 1..Len(rows) :
        (j # k) => ~(rows[j].blockNumber = rows[k].blockNumber
                      /\ rows[j].logIndex = rows[k].logIndex)

Stores ==
    UNION { {rows \in [1..n -> RowUniverse] : DistinctPositions(rows)} : n \in 0..MaxRows }

InitReducer ==
    /\ BalIdle
    /\ RLIdle
    /\ quantum = LimiterQuantum
    /\ IngLocalsIdle
    /\ ResIdle
    /\ store \in Stores
    /\ hpc = "idle"
    /\ fromBlock \in {startBlock, startBlock + 150}
    /\ toBlock \in {startBlock + 100, startBlock + 200}
    /\ holderMap = EmptyMap

NextReducer == BuildHolderMap

SpecReducer == InitReducer /\ [][NextReducer]_vars

\* the rows of the range that concern a token
RowsOf(id) ==
    { k \in 1..Len(store) :
        /\ store[k].tokenId = id
        /\ store[k].blockNumber >= fromBlock
        /\ store[k].blockNumber <= toBlock }

\* row j is the last of them in (blockNumber, logIndex) order
IsLast(j, id) ==
    \A k \in RowsOf(id) :
        \/ store[k].blockNumber < store[j].blockNumber
        \/ (store[k].blockNumber = store[j].blockNumber
            /\ store[k].logIndex <= store[j].logIndex)

LastRow(id) == CHOOSE j \in RowsOf(id) : IsLast(j, id)

\* the owners after a replay in chain order: the receiver of each token's last transfer,
\* and no entry for a token whose last transfer is a burn
ReplayReference ==
    LET held == { id \in TokenIds :
                    RowsOf(id) # {} /\ store[LastRow(id)].toAddress # ZeroAddress }
    IN [id \in held |-> store[LastRow(id)].toAddress]

\* C7 - Reducer correctness: the map returned is the map of the in-order replay.
ReducerMatchesReplay ==
    hpc = "done" => holderMap = ReplayReference

\* rows stored out of chain order; one token burnt after it had an owner, one still held
ReducerMatchesReplayWitness ==
    /\ hpc = "done"
    /\ \E j, k \in 1..Len(store) : j < k /\ Before(store[k], store[j])
    /\ \E id \in TokenIds :
          /\ id \notin DOMAIN holderMap
          /\ \E k \in RowsOf(id) : store[k].toAddress # ZeroAddress
    /\ DOMAIN holderMap # {}

(***************************************************************************)
(* getWalletBalance over bounded holder lists                              *)
(***************************************************************************)

Holders == <<"0xA", "0xB", "0xC", "0xD", "0xE">>

\* balances at the target block: small ones, and ones whose sum carries into ethers
BalanceTables ==
    { [a \in {"0xA", "0xB", "0xC", "0xD", "0xE"} |->
          CASE a = "0xA" -> Wei(10) [] a = "0xB" -> Wei(0) [] a = "0xC" -> Wei(5)
            [] a = "0xD" -> Wei(1) [] a = "0xE" -> Wei(2)],
      [a \in {"0xA", "0xB", "0xC", "0xD", "0xE"} |->
          CASE a = "0xA" -> <<999999999, 999999999, 0>> [] a = "0xB" -> Wei(1)
            [] a = "0xC" -> <<0, 500000000, 1>> [] a = "0xD" -> <<0, 0, 2>>
            [] a = "0xE" -> Wei(7)] }

InitBalance ==
    /\ IngIdle
    /\ ResIdle
    /\ RedIdle
    /\ RLIdle
    /\ quantum = BalanceQuantum
    /\ bpc = "idle"
    /\ walletAddress \in {SubSeq(Holders, 1, n) : n \in 0..MaxTasks}
    /\ balanceOf \in BalanceTables
    /\ attempts = [t \in TaskIds |-> 0]
    /\ results = [t \in TaskIds |-> BigZero]
    /\ completed = 0
    /\ total = NoTotal
    /\ rpcFailures = 0
    /\ answered = <<>>
    /\ crashed = {}

NextBalance ==
    \/ SumStart
    \/ \E t \in TaskIds : BalanceReturns(t)
    \/ \E t \in TaskIds : BalanceFails(t)
    \/ \E t \in TaskIds : RetryFires(t)
    \/ \E i \in 1..Len(timers) : DispatchTimerFires(i)
    \/ Tick
    \/ SumReturns

SpecBalance == InitBalance /\ [][NextBalance]_vars

\* the same with balance calls that fail past the retry loop
NextBalanceCrash ==
    \/ SumStart
    \/ \E t \in TaskIds : BalanceReturns(t)
    \/ \E t \in TaskIds : BalanceFails(t)
    \/ \E t \in TaskIds : RetryFires(t)
    \/ \E t \in TaskIds : TaskCrashes(t)
    \/ \E i \in 1..Len(timers) : DispatchTimerFires(i)
    \/ Tick
    \/ SumReturns

SpecBalanceCrash == InitBalance /\ [][NextBalanceCrash]_vars

\* the exact sum of the holders' balances, each holder once
RECURSIVE SumOver(_)
SumOver(holders) ==
    IF holders = {} THEN BigZero
    ELSE LET a == CHOOSE x \in holders : TRUE
         IN BigAdd(balanceOf[a], SumOver(holders \ {a}))

HolderSet == {walletAddress[k] : k \in 1..Len(walletAddress)}

\* C8 - Aggregation correctness: the total returned is the sum of the balances of the
\* holders, each counted once, whatever the order of the answers and the failed calls.
TotalIsExactSum ==
    bpc = "returned" => total = formatEther(SumOver(HolderSet))

\* all holders answered, not in the order asked, after calls that failed and were retried
TotalIsExactSumWitness ==
    /\ bpc = "returned"
    /\ Len(walletAddress) = MaxTasks
    /\ rpcFailures >= 1
    /\ \E t \in TaskIds : attempts[t] >= 2
    /\ answered[1] # 1
    /\ total.ether > 0

\* C14 - Balance-query rate ceiling: every call of provider.getBalance, a retry inside a
\* task included, begins at least interval after the call before it. A retry is made by
\* the task itself, RETRY_DELAY_MS after its failure, without passing the limiter.
BalanceCallsSpaced ==
    [][(\E t \in TaskIds : attempts'[t] > attempts[t])
          => (sinceCall < 0 \/ sinceCall >= interval)]_vars

\* C19 - Aggregation rejection: when a task has failed past the retry loop, no total is
\* returned. The .catch of the task turns the failure into a balance of zero, and the
\* total is returned without that holder's balance.
CrashRejects ==
    crashed # {} => bpc # "returned"

\* C21 - Effective concurrency cap: once getWalletBalance has handed all its tasks to the
\* fresh limiter in one burst, the tasks started and not finished, plus the dispatch
\* timers armed and not fired, are never more than two.
InFlightAtMostTwo ==
    Cardinality(running) + Len(timers) <= 2

\* two tasks are in flight and a third waits in the queue with no timer armed for it,
\* although the interval since the last start has elapsed
InFlightAtMostTwoWitness ==
    /\ bpc = "awaiting"
    /\ Cardinality(running) = 2
    /\ Len(queue) >= 1
    /\ timers = <<>>
    /\ timeSinceLastDispatch >= interval

====
